---- MODULE Spec2Model ----
(***************************************************************************)
(* Financial Document Analyzer: the HTTP front door (main.py), the Celery  *)
(* task process_document (worker.py, celery_app.py), the analysis_results  *)
(* table (database.py) and the PDF extractor (tools.py).                   *)
(*                                                                         *)
(* Strings are sequences of tokens; a page text is a sequence of           *)
(* characters: a letter "a", the newline and the space.                    *)
(***************************************************************************)
EXTENDS Integers, Sequences, FiniteSets, TLC

\* ------------------------------------------------------------------ bounds
MaxReq == 2        \* POST /analyze requests issued in one behaviour
NumWorkers == 2    \* Celery pool processes
MaxPages == 2      \* pages of a document given to the extractor
MaxPageLen == 3    \* characters of one page text

Reqs == 1..MaxReq
Workers == 1..NumWorkers
\* task ids a client may poll: 0 is never issued by POST /analyze
TaskIds == 0..MaxReq

\* ------------------------------------------------------------------ text
NL == "\n"
SP == " "
Chars == {"a", NL}          \* the characters the enumerated page texts are made of
Whitespace == {NL, SP}

RECURSIVE SeqsUpTo(_, _)
SeqsUpTo(S, n) ==
    IF n = 0 THEN {<< >>}
    ELSE LET shorter == SeqsUpTo(S, n - 1)
         IN  shorter \cup {Append(s, c) : s \in {t \in shorter : Len(t) = n - 1}, c \in S}

\* "\n\n" in text
HasDoubleNL(text) ==
    \E i \in 1..(Len(text) - 1) : text[i] = NL /\ text[i + 1] = NL

\* text.replace("\n\n", "\n"): one left-to-right pass over non-overlapping matches
RECURSIVE ReplaceDoubleNL(_)
ReplaceDoubleNL(text) ==
    IF Len(text) < 2 THEN text
    ELSE IF text[1] = NL /\ text[2] = NL
         THEN <<NL>> \o ReplaceDoubleNL(SubSeq(text, 3, Len(text)))
         ELSE <<text[1]>> \o ReplaceDoubleNL(Tail(text))

\* while "\n\n" in text: text = text.replace("\n\n", "\n")
RECURSIVE CollapseLoop(_)
CollapseLoop(text) ==
    IF HasDoubleNL(text) THEN CollapseLoop(ReplaceDoubleNL(text)) ELSE text

\* str.strip()
RECURSIVE LStrip(_)
LStrip(s) == IF s # << >> /\ s[1] \in Whitespace THEN LStrip(Tail(s)) ELSE s
RECURSIVE RStrip(_)
RStrip(s) ==
    IF s # << >> /\ s[Len(s)] \in Whitespace THEN RStrip(SubSeq(s, 1, Len(s) - 1)) ELSE s
Strip(s) == RStrip(LStrip(s))

\* ------------------------------------------------------------- file system
\* An entry of the file system: a directory, or a file with its bytes.  The
\* bytes either parse as a PDF (a sequence of pages) or they do not.
NoneText == [t |-> "none", v |-> << >>]
FaultPage == [t |-> "fault", v |-> << >>]
TextPage(s) == [t |-> "text", v |-> s]
PdfBytes(pages) == [pdf |-> TRUE, pages |-> pages]
GarbageBytes == [pdf |-> FALSE, pages |-> << >>]

FileEntry(path, bytes) == [path |-> path, dir |-> FALSE, readable |-> TRUE, bytes |-> bytes]

\* os.path.exists(path)
Exists(fs, path) == \E e \in fs : e.path = path
EntryAt(fs, path) == CHOOSE e \in fs : e.path = path

\* Python exceptions and str(e)
Exc(type, msg) == [type |-> type, args |-> <<msg>>]
StrExc(e) == IF Len(e.args) = 0 THEN "" ELSE e.args[1]

\* pdfplumber.open(path): the pages, or the exception it raises
PdfOpen(fs, path) ==
    IF ~Exists(fs, path) THEN [ok |-> FALSE, exc |-> Exc("FileNotFoundError", "no such file"), pages |-> << >>]
    ELSE LET e == EntryAt(fs, path) IN
         IF e.dir THEN [ok |-> FALSE, exc |-> Exc("IsADirectoryError", "is a directory"), pages |-> << >>]
         ELSE IF ~e.readable THEN [ok |-> FALSE, exc |-> Exc("PermissionError", "permission denied"), pages |-> << >>]
         ELSE IF ~e.bytes.pdf THEN [ok |-> FALSE, exc |-> Exc("PDFSyntaxError", "no /Root object"), pages |-> << >>]
         ELSE [ok |-> TRUE, exc |-> Exc("", ""), pages |-> e.bytes.pages]

\* the for loop over pdf.pages: full_report so far, or the exception a page raised
RECURSIVE PagesLoop(_, _)
PagesLoop(pages, full_report) ==
    IF pages = << >> THEN [ok |-> TRUE, exc |-> Exc("", ""), text |-> full_report]
    ELSE LET page == Head(pages) IN
         IF page.t = "fault"
         THEN [ok |-> FALSE, exc |-> Exc("PDFSyntaxError", "bad page"), text |-> full_report]
         ELSE LET text == IF page.t = "none" THEN << >> ELSE page.v   \* extract_text() or ""
              IN  PagesLoop(Tail(pages), full_report \o CollapseLoop(text) \o <<NL>>)

\* FinancialDocumentTool._run: [kind |-> "return", value |-> the string] or
\* [kind |-> "raise", exc |-> the exception]
Returns(s) == [kind |-> "return", value |-> s, exc |-> [type |-> "", args |-> << >>]]
Raises(e) == [kind |-> "raise", value |-> << >>, exc |-> e]
NotFoundMsg(path) == <<"ERROR: File not found at path: ">> \o path
WarningMsg == <<"WARNING: No readable text found in the PDF.">>
ReadFailedMsg(e) == <<"ERROR: Failed to read PDF. Details: ", StrExc(e)>>

\* with pdfplumber.open(path) as pdf: for page in pdf.pages: ...
ReadPages(fs, path) ==
    LET pdf == PdfOpen(fs, path) IN
    IF pdf.ok THEN PagesLoop(pdf.pages, << >>)
    ELSE [ok |-> FALSE, exc |-> pdf.exc, text |-> << >>]

\* what the try block returns after the loop, and the except clause
AfterRead(read) ==
    IF ~read.ok THEN Returns(ReadFailedMsg(read.exc))
    ELSE IF Strip(read.text) = << >> THEN Returns(WarningMsg)
    ELSE Returns(read.text)

\* Faulty variant of RunBody: no except clause around the try block.
RunBodyNoExcept(exists, fs, path) ==
    IF ~exists THEN Returns(NotFoundMsg(path))
    ELSE CHOOSE out \in {IF read.ok THEN AfterRead(read) ELSE Raises(read.exc) :
                            read \in {ReadPages(fs, path)}} : TRUE

\* the body of _run once os.path.exists(path) has answered `exists`; fs is the
\* file system by the time pdfplumber.open runs
RunBody(exists, fs, path) ==
    IF ~exists THEN Returns(NotFoundMsg(path))
    ELSE CHOOSE out \in {AfterRead(read) : read \in {ReadPages(fs, path)}} : TRUE

_run(fs, path) == RunBody(Exists(fs, path), fs, path)

\* ------------------------------------------------------------ program data
UPLOAD_DIR == "data"

\* What a client may upload: the file name (tokens) and the bytes.
Uploads ==
    << [filename |-> <<"report", ".", "pdf">>,
        bytes |-> PdfBytes(<<TextPage(<<"a", NL, NL, "a">>)>>)],
       [filename |-> <<"scan">>,
        bytes |-> PdfBytes(<<TextPage(<<SP, NL>>), NoneText>>)] >>
Queries == {"q1", "q2"}

\* what the two agents may answer, and what may go wrong
AnalyzeOutputs == {"analysis"}
VerifyOutputs == {"verified-1", "verified-2"}
LlmError == Exc("APIError", "llm call failed")
DbError == Exc("OperationalError", "database is locked")

\* os.path.splitext(filename)[1]: from the last dot, unless only dots precede it
LastDot(name) ==
    LET dots == {i \in 1..Len(name) : name[i] = "."}
    IN  IF dots = {} THEN 0 ELSE CHOOSE i \in dots : \A j \in dots : j <= i
SplitExt(name) ==
    LET i == LastDot(name) IN
    IF i = 0 \/ (\A j \in 1..(i - 1) : name[j] = ".") THEN << >>
    ELSE SubSeq(name, i, Len(name))

\* Faulty variant of UploadPath: the upload is stored under its own file name.
UploadPathByName(file_id, filename) == <<UPLOAD_DIR, "/">> \o filename

\* os.path.join(UPLOAD_DIR, f"{file_id}{file_extension}")
UploadPath(file_id, filename) == <<UPLOAD_DIR, "/", file_id>> \o SplitExt(filename)

\* str(result) of the CrewOutput that kickoff returns
CrewOutput(raw) == [raw |-> raw]
StrResult(result) == result.raw

\* ------------------------------------------------------------------- state
VARIABLES
    reqs,         \* POST /analyze requests: position and locals of each handler
    files,        \* the file system under UPLOAD_DIR
    queue,        \* the broker: messages sent by process_document.delay
    backend,      \* the result backend: task id -> stored meta
    wk,           \* the pool processes: position and locals of process_document
    db,           \* committed rows of analysis_results
    openSessions, \* sessions opened by SessionLocal() and not closed
    runs,         \* history: how often process_document was started per task id
    outcome,      \* history: how each run of process_document ended
    lastResp,     \* the body of the last response of GET /status/{task_id}
    ex            \* the extractor applied to a path on its own

vars == <<reqs, files, queue, backend, wk, db, openSessions, runs, outcome, lastResp, ex>>
mainVars == <<reqs, files, queue, backend, wk, db, openSessions, runs, outcome, lastResp>>

NoReq == [pc |-> "new", upload |-> 0, query |-> "", path |-> << >>, task_id |-> 0, http |-> 0]
NoMsg == [id |-> 0, file_path |-> << >>, query |-> ""]
IdleWorker == [pc |-> "idle", msg |-> NoMsg, context |-> "", result |-> CrewOutput(""), doc |-> << >>]
NoOutcome == [stage |-> "none", text |-> ""]
NoResp == [status |-> "none"]
NoOut == Returns(<<"unset">>)
NoEx == [fs |-> {}, fs0 |-> {}, path |-> << >>, pc |-> "off", exists |-> FALSE, out |-> NoOut]

\* uuid.uuid4(): a value no earlier call returned
NewFileId(rq) == ToString(1 + Cardinality({r \in Reqs : rq[r].pc # "new"}))
NewTaskId(rq) == 1 + Cardinality({r \in Reqs : rq[r].task_id # 0})

MainInit ==
    /\ reqs = [r \in Reqs |-> NoReq]
    /\ files = {}
    /\ queue = << >>
    /\ backend = << >>
    /\ wk = [w \in Workers |-> IdleWorker]
    /\ db = << >>
    /\ openSessions = 0
    /\ runs = [t \in TaskIds |-> 0]
    /\ outcome = [t \in TaskIds |-> NoOutcome]
    /\ lastResp = NoResp

Init == MainInit /\ ex = NoEx

\* ------------------------------------------------------- result backend
\* AsyncResult(task_id).state / .result: a task id with no stored meta is PENDING
\* .result is the return value of a SUCCESS and the exception of a FAILURE
NoExc == [type |-> "", args |-> << >>]
TaskState(be, t) == IF t \in DOMAIN be THEN be[t].status ELSE "PENDING"
Store(be, t, meta) == [k \in (DOMAIN be) \cup {t} |-> IF k = t THEN meta ELSE be[k]]
StartedMeta == [status |-> "STARTED", retval |-> "", exc |-> NoExc]
SuccessMeta(retval) == [status |-> "SUCCESS", retval |-> retval, exc |-> NoExc]
FailureMeta(exc) == [status |-> "FAILURE", retval |-> "", exc |-> exc]

\* Faulty variant of get_status: no fall-through for the other state labels.
get_status_no_raw(be, task_id) ==
    LET state == TaskState(be, task_id) IN
    IF state = "SUCCESS" THEN [status |-> "completed", result |-> be[task_id].retval]
    ELSE IF state = "FAILURE" THEN [status |-> "failed", error |-> StrExc(be[task_id].exc)]
    ELSE [status |-> "pending"]

\* get_status(task_id)
get_status(be, task_id) ==
    LET state == TaskState(be, task_id) IN
    IF state = "PENDING" THEN [status |-> "pending"]
    ELSE IF state = "SUCCESS" THEN [status |-> "completed", result |-> be[task_id].retval]
    ELSE IF state = "FAILURE" THEN [status |-> "failed", error |-> StrExc(be[task_id].exc)]
    ELSE [status |-> state]

\* ------------------------------------------------------- POST /analyze
\* open(file_path, "wb"); f.write(contents)
WriteFile(fs, path, bytes) == {e \in fs : e.path # path} \cup {FileEntry(path, bytes)}

\* Faulty variant of SaveUploadFile: an exception of f.write is swallowed and the
\* path of the incomplete file is returned.
SaveUploadFileSwallow(r) ==
    /\ reqs[r].pc = "new"
    /\ \A r0 \in 1..(r - 1) : reqs[r0].pc # "new"
    /\ \E u \in 1..Len(Uploads), q \in Queries, fault \in {"none", "read", "write"} :
          LET path == UploadPath(NewFileId(reqs), Uploads[u].filename) IN
          \/ /\ fault = "none"
             /\ files' = WriteFile(files, path, Uploads[u].bytes)
             /\ reqs' = [reqs EXCEPT ![r] = [@ EXCEPT !.pc = "saved", !.upload = u,
                                                    !.query = q, !.path = path]]
          \/ /\ fault = "read"
             /\ files' = files
             /\ reqs' = [reqs EXCEPT ![r] = [@ EXCEPT !.pc = "done", !.upload = u,
                                                    !.query = q, !.http = 500]]
          \/ /\ fault = "write"
             /\ files' = WriteFile(files, path, GarbageBytes)
             /\ reqs' = [reqs EXCEPT ![r] = [@ EXCEPT !.pc = "saved", !.upload = u,
                                                    !.query = q, !.path = path]]
    /\ UNCHANGED <<queue, backend, wk, db, openSessions, runs, outcome, lastResp, ex>>

\* save_upload_file, called at the start of analyze_document
SaveUploadFile(r) ==
    /\ reqs[r].pc = "new"
    /\ \A r0 \in 1..(r - 1) : reqs[r0].pc # "new"    \* requests are numbered as they arrive
    /\ \E u \in 1..Len(Uploads), q \in Queries, fault \in {"none", "read", "write"} :
          LET path == UploadPath(NewFileId(reqs), Uploads[u].filename) IN
          \/ /\ fault = "none"
             /\ files' = WriteFile(files, path, Uploads[u].bytes)
             /\ reqs' = [reqs EXCEPT ![r] = [@ EXCEPT !.pc = "saved", !.upload = u,
                                                    !.query = q, !.path = path]]
          \/ /\ fault = "read"        \* upload_file.read() or open() raises
             /\ files' = files
             /\ reqs' = [reqs EXCEPT ![r] = [@ EXCEPT !.pc = "done", !.upload = u,
                                                    !.query = q, !.http = 500]]
          \/ /\ fault = "write"       \* f.write raises after open() created the file
             /\ files' = WriteFile(files, path, GarbageBytes)
             /\ reqs' = [reqs EXCEPT ![r] = [@ EXCEPT !.pc = "done", !.upload = u,
                                                    !.query = q, !.http = 500]]
    /\ UNCHANGED <<queue, backend, wk, db, openSessions, runs, outcome, lastResp, ex>>

\* process_document.delay(file_path, query) and the JSON response
Delay(r) ==
    /\ reqs[r].pc = "saved"
    /\ \/ LET id == NewTaskId(reqs) IN
          /\ queue' = Append(queue, [id |-> id, file_path |-> reqs[r].path, query |-> reqs[r].query])
          /\ reqs' = [reqs EXCEPT ![r] = [@ EXCEPT !.pc = "done", !.task_id = id, !.http = 200]]
       \/ /\ queue' = queue           \* the broker refuses the message
          /\ reqs' = [reqs EXCEPT ![r] = [@ EXCEPT !.pc = "done", !.http = 500]]
    /\ UNCHANGED <<files, backend, wk, db, openSessions, runs, outcome, lastResp, ex>>

\* Faulty variant of GetStatus: the handler waits for the result (AsyncResult.get).
GetStatusBlocking(t) ==
    /\ TaskState(backend, t) \in {"SUCCESS", "FAILURE"}
    /\ lastResp' = get_status(backend, t)
    /\ lastResp' # lastResp
    /\ UNCHANGED <<reqs, files, queue, backend, wk, db, openSessions, runs, outcome, ex>>

\* ------------------------------------------------------- GET /status
GetStatus(t) ==
    /\ lastResp' = get_status(backend, t)
    /\ lastResp' # lastResp
    /\ UNCHANGED <<reqs, files, queue, backend, wk, db, openSessions, runs, outcome, ex>>

\* ------------------------------------------------------- the Celery worker
\* Faulty variant of Receive: the message stays on the broker and is delivered again.
ReceiveNoAck(w) ==
    /\ wk[w].pc = "idle"
    /\ \A w0 \in 1..(w - 1) : wk[w0].pc # "idle"
    /\ queue # << >>
    /\ wk' = [wk EXCEPT ![w] = [IdleWorker EXCEPT !.pc = "reserved", !.msg = Head(queue)]]
    /\ queue' = queue
    /\ UNCHANGED <<reqs, files, backend, db, openSessions, runs, outcome, lastResp, ex>>

\* A pool process takes the oldest message off the broker.
Receive(w) ==
    /\ wk[w].pc = "idle"
    /\ \A w0 \in 1..(w - 1) : wk[w0].pc # "idle"     \* the pool hands it to its first free process
    /\ queue # << >>
    /\ wk' = [wk EXCEPT ![w] = [IdleWorker EXCEPT !.pc = "reserved", !.msg = Head(queue)]]
    /\ queue' = Tail(queue)
    /\ UNCHANGED <<reqs, files, backend, db, openSessions, runs, outcome, lastResp, ex>>

\* task_track_started: the STARTED meta is stored, then process_document is entered
Start(w) ==
    /\ wk[w].pc = "reserved"
    /\ backend' = Store(backend, wk[w].msg.id, StartedMeta)
    /\ runs' = [runs EXCEPT ![wk[w].msg.id] = @ + 1]
    /\ wk' = [wk EXCEPT ![w].pc = "analyze"]
    /\ UNCHANGED <<reqs, files, queue, db, openSessions, outcome, lastResp, ex>>

\* Faulty variants of TaskRaises: the failure is not stored; the task is marked
\* for a retry; the output of the first stage is stored as the result; an
\* exception of the record write is swallowed and the result is returned.
TaskRaisesNoStore(w, stage, exc) ==
    /\ backend' = backend
    /\ outcome' = [outcome EXCEPT ![wk[w].msg.id] = [stage |-> stage, text |-> StrExc(exc)]]
    /\ wk' = [wk EXCEPT ![w] = IdleWorker]
TaskRaisesRetry(w, stage, exc) ==
    /\ backend' = Store(backend, wk[w].msg.id, [status |-> "RETRY", retval |-> "", exc |-> exc])
    /\ outcome' = [outcome EXCEPT ![wk[w].msg.id] = [stage |-> stage, text |-> StrExc(exc)]]
    /\ wk' = [wk EXCEPT ![w] = IdleWorker]
TaskRaisesSalvage(w, stage, exc) ==
    /\ backend' = Store(backend, wk[w].msg.id, SuccessMeta(wk[w].context))
    /\ outcome' = [outcome EXCEPT ![wk[w].msg.id] = [stage |-> stage, text |-> StrExc(exc)]]
    /\ wk' = [wk EXCEPT ![w] = IdleWorker]
TaskRaisesKeepResult(w, stage, exc) ==
    /\ backend' = Store(backend, wk[w].msg.id,
                        IF stage \in {"add", "commit"}
                        THEN SuccessMeta(StrResult(wk[w].result))
                        ELSE FailureMeta(exc))
    /\ outcome' = [outcome EXCEPT ![wk[w].msg.id] = [stage |-> stage, text |-> StrExc(exc)]]
    /\ wk' = [wk EXCEPT ![w] = IdleWorker]

\* process_document raised exc at `stage`: Celery stores FAILURE, the process is free
TaskRaises(w, stage, exc) ==
    /\ backend' = Store(backend, wk[w].msg.id, FailureMeta(exc))
    /\ outcome' = [outcome EXCEPT ![wk[w].msg.id] = [stage |-> stage, text |-> StrExc(exc)]]
    /\ wk' = [wk EXCEPT ![w] = IdleWorker]

\* financial_crew.kickoff, task 1 (analyze_financial_document): the agent reads
\* the document with the tool and answers, or the call raises
AnalyzeStage(w) ==
    /\ wk[w].pc = "analyze"
    /\ \E doc \in {_run(files, wk[w].msg.file_path)} :
       \/ /\ doc.kind = "return"
          /\ \E a \in AnalyzeOutputs :
                wk' = [wk EXCEPT ![w] = [@ EXCEPT !.pc = "verify", !.context = a, !.doc = doc.value]]
          /\ UNCHANGED <<backend, outcome>>
       \/ /\ doc.kind = "return"
          /\ TaskRaises(w, "analyze", LlmError)
       \/ /\ doc.kind = "raise"
          /\ TaskRaises(w, "extract", doc.exc)
    /\ UNCHANGED <<reqs, files, queue, db, openSessions, runs, lastResp, ex>>

\* Faulty variant of VerifyStage: the second task does not wait for the first
\* (as with async_execution=True on the first task).
VerifyStageEarly(w) ==
    /\ wk[w].pc \in {"analyze", "verify"}
    /\ \/ /\ \E v \in VerifyOutputs :
                wk' = [wk EXCEPT ![w] = [@ EXCEPT !.pc = "add", !.result = CrewOutput(v)]]
          /\ UNCHANGED <<backend, outcome>>
       \/ TaskRaises(w, "verify", LlmError)
    /\ UNCHANGED <<reqs, files, queue, db, openSessions, runs, lastResp, ex>>

\* financial_crew.kickoff, task 2 (verify_financial_analysis): kickoff returns
\* the output of the last task
VerifyStage(w) ==
    /\ wk[w].pc = "verify"
    /\ \/ /\ \E v \in VerifyOutputs :
                wk' = [wk EXCEPT ![w] = [@ EXCEPT !.pc = "add", !.result = CrewOutput(v)]]
          /\ UNCHANGED <<backend, outcome>>
       \/ TaskRaises(w, "verify", LlmError)
    /\ UNCHANGED <<reqs, files, queue, db, openSessions, runs, lastResp, ex>>

\* db = SessionLocal(); record = AnalysisResult(...); db.add(record)
DbAdd(w) ==
    /\ wk[w].pc = "add"
    /\ openSessions' = openSessions + 1
    /\ \/ /\ wk' = [wk EXCEPT ![w].pc = "commit"]
          /\ UNCHANGED <<backend, outcome>>
       \/ TaskRaises(w, "add", DbError)
    /\ UNCHANGED <<reqs, files, queue, db, runs, lastResp, ex>>

\* the row that db.commit() inserts: id is the autoincrement primary key
Record(table, m, result) ==
    [id |-> Len(table) + 1, filename |-> m.file_path, query |-> m.query,
     result |-> StrResult(result)]

\* Faulty variants of DbCommit: nothing is inserted; a commit that raises has
\* inserted the row all the same.
DbCommitNoInsert(w) ==
    /\ wk[w].pc = "commit"
    /\ \/ /\ db' = db
          /\ wk' = [wk EXCEPT ![w].pc = "close"]
          /\ UNCHANGED <<backend, outcome>>
       \/ /\ db' = db
          /\ TaskRaises(w, "commit", DbError)
    /\ UNCHANGED <<reqs, files, queue, openSessions, runs, lastResp, ex>>
DbCommitPartial(w) ==
    /\ wk[w].pc = "commit"
    /\ db' = Append(db, Record(db, wk[w].msg, wk[w].result))
    /\ \/ /\ wk' = [wk EXCEPT ![w].pc = "close"]
          /\ UNCHANGED <<backend, outcome>>
       \/ TaskRaises(w, "commit", DbError)
    /\ UNCHANGED <<reqs, files, queue, openSessions, runs, lastResp, ex>>

\* db.commit()
DbCommit(w) ==
    /\ wk[w].pc = "commit"
    /\ \/ /\ db' = Append(db, Record(db, wk[w].msg, wk[w].result))
          /\ wk' = [wk EXCEPT ![w].pc = "close"]
          /\ UNCHANGED <<backend, outcome>>
       \/ /\ db' = db
          /\ TaskRaises(w, "commit", DbError)
    /\ UNCHANGED <<reqs, files, queue, openSessions, runs, lastResp, ex>>

\* db.close(); return str(result): Celery stores SUCCESS with the return value
CloseAndReturn(w) ==
    /\ wk[w].pc = "close"
    /\ openSessions' = openSessions - 1
    /\ backend' = Store(backend, wk[w].msg.id, SuccessMeta(StrResult(wk[w].result)))
    /\ outcome' = [outcome EXCEPT ![wk[w].msg.id] = [stage |-> "return", text |-> StrResult(wk[w].result)]]
    /\ wk' = [wk EXCEPT ![w] = IdleWorker]
    /\ UNCHANGED <<reqs, files, queue, db, runs, lastResp, ex>>

WorkerStep(w) ==
    \/ Receive(w)
    \/ Start(w)
    \/ AnalyzeStage(w)
    \/ VerifyStage(w)
    \/ DbAdd(w)
    \/ DbCommit(w)
    \/ CloseAndReturn(w)

\* ------------------------------------------------------- specifications
Next ==
    \/ \E r \in Reqs : SaveUploadFile(r)
    \/ \E r \in Reqs : Delay(r)
    \/ \E t \in TaskIds : GetStatus(t)
    \/ \E w \in Workers : Receive(w)
    \/ \E w \in Workers : Start(w)
    \/ \E w \in Workers : AnalyzeStage(w)
    \/ \E w \in Workers : VerifyStage(w)
    \/ \E w \in Workers : DbAdd(w)
    \/ \E w \in Workers : DbCommit(w)
    \/ \E w \in Workers : CloseAndReturn(w)

Spec == Init /\ [][Next]_vars

\* The same system without the polling client, which changes nothing but
\* lastResp.  The pool keeps taking steps while one of its processes can (it
\* schedules them and every call returns or raises).
LiveNext ==
    \/ \E r \in Reqs : SaveUploadFile(r)
    \/ \E r \in Reqs : Delay(r)
    \/ \E w \in Workers : WorkerStep(w)
LiveSpec == Init /\ [][LiveNext]_vars /\ WF_vars(\E w \in Workers : WorkerStep(w))

\* ------------------------------------------- the extractor on its own
\* FinancialDocumentTool._run(path) against every kind of file system entry;
\* another process may remove the file between os.path.exists and the open.
ExPath == <<UPLOAD_DIR, "/", "x", ".", "pdf">>
PageTexts == SeqsUpTo(Chars, MaxPageLen)
Pages ==
    {TextPage(s) : s \in PageTexts}
    \cup {TextPage(<<SP>>), TextPage(<<SP, NL, SP>>), TextPage(<<"a", NL, NL, "a">>),
          NoneText, FaultPage}
Documents == SeqsUpTo(Pages, MaxPages)
ExEntries ==
    {[path |-> ExPath, dir |-> TRUE, readable |-> TRUE, bytes |-> GarbageBytes],
     [path |-> ExPath, dir |-> FALSE, readable |-> FALSE, bytes |-> GarbageBytes],
     FileEntry(ExPath, GarbageBytes)}
    \cup {FileEntry(ExPath, PdfBytes(d)) : d \in Documents}
ExFileSystems == {{}} \cup {{e} : e \in ExEntries}

ExtractInit ==
    /\ MainInit
    /\ ex \in {[NoEx EXCEPT !.fs = fs, !.fs0 = fs, !.path = ExPath, !.pc = "exists"] :
                 fs \in ExFileSystems}

\* if not os.path.exists(path)
ExCheckExists ==
    /\ ex.pc = "exists"
    /\ ex' = [ex EXCEPT !.exists = Exists(ex.fs, ex.path), !.pc = "read"]
    /\ UNCHANGED mainVars

\* the environment removes the file while _run is between the check and the open
ExUnlink ==
    /\ ex.pc = "read"
    /\ ex.fs # {}
    /\ ex' = [ex EXCEPT !.fs = {}]
    /\ UNCHANGED mainVars

\* the rest of _run
ExRead ==
    /\ ex.pc = "read"
    /\ ex' = [ex EXCEPT !.out = RunBody(ex.exists, ex.fs, ex.path), !.pc = "done"]
    /\ UNCHANGED mainVars

ExtractNext == ExCheckExists \/ ExUnlink \/ ExRead
ExtractSpec == ExtractInit /\ [][ExtractNext]_vars

\* ------------------------------------------------------- vocabulary of the claims
Issued == {reqs[r].task_id : r \in Reqs} \ {0}
JobReq(t) == CHOOSE r \in Reqs : reqs[r].task_id = t
JobPath(t) == reqs[JobReq(t)].path
JobQuery(t) == reqs[JobReq(t)].query
RecordsOf(path) == {i \in 1..Len(db) : db[i].filename = path}
Executing(t) == \E w \in Workers : wk[w].msg.id = t /\ wk[w].pc \notin {"idle", "reserved"}
Returned(t) == outcome[t].stage = "return"
Raised(t) == outcome[t].stage \notin {"none", "return"}
StageRaised(t) == outcome[t].stage \in {"analyze", "verify"}
Finished(t) == outcome[t].stage # "none"
AllFinished ==
    /\ \A r \in Reqs : reqs[r].pc = "done"
    /\ \A t \in Issued : Finished(t)
StatusOf(t) == get_status(backend, t)

\* C1: under fair scheduling of the pool, every task id that POST /analyze
\* returned is eventually reported as completed or failed by GET /status.
C1_EventuallyTerminal ==
    \A t \in 1..MaxReq :
        (t \in Issued) ~> (StatusOf(t).status \in {"completed", "failed"})

C1_Witness ==
    \E t \in Issued, u \in Issued :
        /\ StatusOf(t).status = "completed"
        /\ StatusOf(u).status = "failed"

\* C2 as stated: once all jobs are finished and every pipeline (kickoff)
\* returned, each job was run exactly once and the table holds one record per job.
C2_Original ==
    (AllFinished /\ \A t \in Issued : ~StageRaised(t)) =>
        /\ \A t \in Issued : runs[t] = 1 /\ Cardinality(RecordsOf(JobPath(t))) = 1
        /\ Len(db) = Cardinality(Issued)

\* C2 amended: process_document is started at most once per task id and never
\* on two pool processes at once; once all jobs are finished each was started
\* exactly once and the table holds exactly one record per job whose
\* process_document returned, so N records when every pipeline and every
\* record write succeeded.
C2_ExactlyOnce ==
    /\ \A t \in TaskIds : runs[t] <= 1
    /\ \A w1, w2 \in Workers : (w1 # w2 /\ wk[w1].msg.id # 0) => wk[w1].msg.id # wk[w2].msg.id
    /\ \A w \in Workers : wk[w].msg.id # 0 => \A i \in 1..Len(queue) : queue[i].id # wk[w].msg.id
    /\ AllFinished =>
          /\ \A t \in Issued :
                /\ runs[t] = 1
                /\ Cardinality(RecordsOf(JobPath(t))) = (IF Returned(t) THEN 1 ELSE 0)
          /\ Len(db) = Cardinality({t \in Issued : Returned(t)})
          /\ (\A t \in Issued : Returned(t)) => Len(db) = Cardinality(Issued)

C2_Witness ==
    /\ AllFinished
    /\ Cardinality(Issued) = MaxReq
    /\ \A t \in Issued : Returned(t)
    /\ Len(db) = MaxReq

\* C3: the response of GET /status for every task id and every state of the job:
\* pending for an id never issued and for a job not started, the raw label
\* STARTED while process_document runs, completed with the returned text,
\* failed with str(exception).
C3_StatusMapping ==
    \A t \in TaskIds :
        /\ (t \notin Issued \/ runs[t] = 0) => StatusOf(t) = [status |-> "pending"]
        /\ Executing(t) => StatusOf(t) = [status |-> "STARTED"]
        /\ Returned(t) => StatusOf(t) = [status |-> "completed", result |-> outcome[t].text]
        /\ Raised(t) => StatusOf(t) = [status |-> "failed", error |-> outcome[t].text]
        /\ (t \in Issued /\ runs[t] > 0) => (Executing(t) \/ Returned(t) \/ Raised(t))

C3_Witness ==
    \E t \in Issued, u \in Issued :
        /\ Executing(t) /\ lastResp = StatusOf(t)
        /\ runs[u] = 0
        /\ StatusOf(u) = StatusOf(0)

StateRank(state) ==
    IF state \in {"PENDING", "pending"} THEN 0
    ELSE IF state = "STARTED" THEN 1
    ELSE IF state \in {"SUCCESS", "FAILURE", "completed", "failed"} THEN 2
    ELSE 0 - 1
AllowedMoves ==
    {<<"PENDING", "STARTED">>, <<"STARTED", "SUCCESS">>, <<"STARTED", "FAILURE">>}
\* C4: in every step each job's stored state either stays or moves along
\* PENDING -> STARTED -> SUCCESS | FAILURE, only a step of the pool process that
\* holds the job changes it, a terminal meta never changes, and the status a
\* poll reports never goes back.
C4_StateMachine ==
    [][\A t \in TaskIds :
         /\ TaskState(backend', t) # TaskState(backend, t) =>
               /\ <<TaskState(backend, t), TaskState(backend', t)>> \in AllowedMoves
               /\ \E w \in Workers : wk[w].msg.id = t /\ wk'[w] # wk[w]
         /\ TaskState(backend, t) \in {"SUCCESS", "FAILURE"} =>
               /\ t \in DOMAIN backend'
               /\ backend'[t] = backend[t]
               /\ get_status(backend', t) = get_status(backend, t)
         /\ StateRank(get_status(backend', t).status) >= StateRank(get_status(backend, t).status)
         /\ StateRank(get_status(backend, t).status) >= 0
      ]_vars

C4_Witness ==
    \E t \in Issued, u \in Issued :
        /\ TaskState(backend, t) = "SUCCESS"
        /\ TaskState(backend, u) = "FAILURE"
        /\ lastResp = StatusOf(t)

\* C5: whenever GET /status reports completed for a job, a committed row holds
\* the job's file path, its query and the result text of the response.
C5_RecordBeforeCompleted ==
    \A t \in TaskIds :
        StatusOf(t).status = "completed" =>
            /\ t \in Issued
            /\ \E i \in 1..Len(db) :
                  /\ db[i].filename = JobPath(t)
                  /\ db[i].query = JobQuery(t)
                  /\ db[i].result = StatusOf(t).result

C5_Witness ==
    \E t \in Issued :
        /\ lastResp = StatusOf(t)
        /\ StatusOf(t).status = "completed"
        /\ \E i \in 1..Len(db) : db[i].filename = JobPath(t)

RecordsOnSuccessPath ==
    /\ \A i \in 1..Len(db) :
          \E t \in Issued :
              /\ db[i].filename = JobPath(t)
              /\ \/ Returned(t)
                 \/ \E w \in Workers : wk[w].msg.id = t /\ wk[w].pc = "close"
    /\ \A t \in Issued :
          /\ Cardinality(RecordsOf(JobPath(t))) <= 1
          /\ Raised(t) => RecordsOf(JobPath(t)) = {}
\* C6: a job never has two rows, a row exists for a job only once its commit
\* succeeded (the job is about to return or has returned), a job that raised
\* has no row, and every step leaves the committed rows as they are.
C6_RecordsOnlyOnSuccess ==
    [][/\ RecordsOnSuccessPath
       /\ RecordsOnSuccessPath'
       /\ Len(db') >= Len(db)
       /\ SubSeq(db', 1, Len(db)) = db
      ]_vars

C6_Witness ==
    \E t \in Issued, u \in Issued :
        /\ Returned(t) /\ Cardinality(RecordsOf(JobPath(t))) = 1
        /\ Raised(u) /\ RecordsOf(JobPath(u)) = {}
        /\ Len(db) = 1

\* C7: a job whose analyze or verify stage raised is FAILURE, GET /status
\* answers failed with str(exception) and no result, and no row was written.
C7_StageFailure ==
    \A t \in Issued :
        StageRaised(t) =>
            /\ TaskState(backend, t) = "FAILURE"
            /\ StatusOf(t) = [status |-> "failed", error |-> StrExc(LlmError)]
            /\ "result" \notin DOMAIN StatusOf(t)
            /\ RecordsOf(JobPath(t)) = {}
            /\ \A i \in 1..Len(db) : db[i].result \notin AnalyzeOutputs

C7_Witness ==
    \E t \in Issued, u \in Issued :
        /\ outcome[t].stage = "analyze"
        /\ outcome[u].stage = "verify"
        /\ lastResp = StatusOf(u)

SameSubmission(r1, r2) ==
    /\ r1 # r2
    /\ reqs[r1].http = 200 /\ reqs[r2].http = 200
    /\ reqs[r1].upload = reqs[r2].upload
    /\ reqs[r1].query = reqs[r2].query
\* C9: two accepted submissions of the same upload and query have different
\* task ids and different stored files, each is run on its own, and when both
\* returned there are two separate rows.
C9_NoDeduplication ==
    \A r1, r2 \in Reqs :
        SameSubmission(r1, r2) =>
            /\ reqs[r1].task_id # reqs[r2].task_id
            /\ reqs[r1].path # reqs[r2].path
            /\ Exists(files, reqs[r1].path) /\ Exists(files, reqs[r2].path)
            /\ \A r \in {r1, r2} :
                  /\ Finished(reqs[r].task_id) => runs[reqs[r].task_id] = 1
                  /\ Returned(reqs[r].task_id) =>
                        Cardinality(RecordsOf(reqs[r].path)) = 1
            /\ (Returned(reqs[r1].task_id) /\ Returned(reqs[r2].task_id)) =>
                  \E i, j \in 1..Len(db) :
                      /\ i # j
                      /\ db[i].filename = reqs[r1].path
                      /\ db[j].filename = reqs[r2].path

C9_Witness ==
    \E r1, r2 \in Reqs :
        /\ SameSubmission(r1, r2)
        /\ Returned(reqs[r1].task_id) /\ Returned(reqs[r2].task_id)
        /\ Len(db) = 2

WellFormed(body) ==
    \/ body = [status |-> "pending"]
    \/ body = [status |-> "STARTED"]
    \/ /\ DOMAIN body = {"status", "result"}
       /\ body.status = "completed"
       /\ body.result \in VerifyOutputs
    \/ /\ DOMAIN body = {"status", "error"}
       /\ body.status = "failed"
       /\ body.error \in {StrExc(LlmError), StrExc(DbError)}
\* C10: the handlers of POST /analyze and GET /status can always take their
\* next step, whatever the pool processes are doing, POST /analyze answers
\* while its job is not started, and GET /status answers one well-formed object.
C10_NeverBlocks ==
    /\ \A r \in Reqs :
          /\ (reqs[r].pc = "new" /\ \A r0 \in 1..(r - 1) : reqs[r0].pc # "new") =>
                ENABLED SaveUploadFile(r)
          /\ reqs[r].pc = "saved" => ENABLED Delay(r)
    /\ \A t \in TaskIds :
          /\ WellFormed(StatusOf(t))
          /\ lastResp = StatusOf(t) \/ ENABLED GetStatus(t)
    /\ lastResp = NoResp \/ WellFormed(lastResp)

C10_Witness ==
    \E w \in Workers, r \in Reqs :
        /\ wk[w].pc = "analyze"
        /\ reqs[r].pc = "done" /\ reqs[r].http = 200 /\ runs[reqs[r].task_id] = 0
        /\ lastResp = StatusOf(wk[w].msg.id)

ReadableFile(fs, path) ==
    \E e \in fs : e.path = path /\ ~e.dir /\ e.readable
\* C8 as stated: a path that is no readable file (missing, a directory, or a
\* file that may not be read) gives the not-found string.
C8_Original ==
    (ex.pc = "done" /\ ~ReadableFile(ex.fs0, ex.path)) =>
        ex.out = Returns(NotFoundMsg(ex.path))

OpenFaults(fs, path) ==
    \/ fs = {}
    \/ \E e \in fs : e.path = path /\ (e.dir \/ ~e.readable \/ ~e.bytes.pdf)
    \/ \E e \in fs : e.path = path /\ \E i \in 1..Len(e.bytes.pages) : e.bytes.pages[i].t = "fault"
AllBlank(fs, path) ==
    \A e \in fs : \A i \in 1..Len(e.bytes.pages) :
        \A j \in 1..Len(e.bytes.pages[i].v) : e.bytes.pages[i].v[j] \in Whitespace
IsText(s) == \A i \in 1..Len(s) : s[i] \in Chars \cup Whitespace
\* C8 amended: _run never raises and always returns a string: the not-found
\* string when the path does not exist; when it exists, the 'ERROR: Failed to
\* read PDF' string if opening or parsing faults (a directory, an unreadable
\* file, no PDF, a bad page, or the file removed after the check), the warning
\* string if every page is blank, and otherwise a text that is not blank.
C8_ExtractorTotal ==
    ex.pc = "done" =>
        /\ ex.out.kind = "return"
        /\ ~Exists(ex.fs0, ex.path) => ex.out.value = NotFoundMsg(ex.path)
        /\ (Exists(ex.fs0, ex.path) /\ OpenFaults(ex.fs, ex.path)) =>
              /\ Len(ex.out.value) = 2
              /\ ex.out.value[1] = "ERROR: Failed to read PDF. Details: "
        /\ (Exists(ex.fs0, ex.path) /\ ~OpenFaults(ex.fs, ex.path)) =>
              IF AllBlank(ex.fs, ex.path)
              THEN ex.out.value = WarningMsg
              ELSE /\ IsText(ex.out.value)
                   /\ \E i \in 1..Len(ex.out.value) : ex.out.value[i] \notin Whitespace

C8_Witness ==
    /\ ex.pc = "done"
    /\ \E e \in ex.fs : e.dir
    /\ ex.out = Returns(ReadFailedMsg(Exc("IsADirectoryError", "is a directory")))

StageOf(w) == IF wk[w].pc \in {"analyze", "verify"} THEN wk[w].pc ELSE "none"
\* C11: within one job the pipeline is sequential: the verify stage becomes the
\* current stage only in the step in which the analyze stage of the same job
\* returns its output, it ends (returning or raising) only after that, a job is
\* never in two stages at once (one pool process holds it and that process is
\* in one stage), and the result handed to the record and to the status
\* endpoint is the output of the verify stage.
C11_Sequential ==
    [][/\ \A w \in Workers :
             /\ (StageOf(w)' = "verify" /\ StageOf(w) # "verify") =>
                   /\ StageOf(w) = "analyze"
                   /\ wk'[w].msg = wk[w].msg
                   /\ wk'[w].context \in AnalyzeOutputs
             /\ (StageOf(w) = "analyze" /\ StageOf(w)' # "analyze") =>
                   \/ StageOf(w)' = "verify"
                   \/ wk'[w] = IdleWorker /\ outcome'[wk[w].msg.id].stage \in {"extract", "analyze"}
             /\ (wk'[w].pc = "add" /\ wk[w].pc # "add") =>
                   /\ StageOf(w) = "verify"
                   /\ wk[w].context \in AnalyzeOutputs
                   /\ StrResult(wk'[w].result) \in VerifyOutputs
             /\ (wk[w].msg.id # 0 /\ outcome'[wk[w].msg.id].stage = "verify"
                                   /\ outcome[wk[w].msg.id].stage # "verify") =>
                   StageOf(w) = "verify" /\ wk[w].context \in AnalyzeOutputs
       /\ \A w1, w2 \in Workers :
             (w1 # w2 /\ StageOf(w1) # "none" /\ StageOf(w2) # "none") =>
                 wk[w1].msg.id # wk[w2].msg.id
       /\ \A t \in Issued :
             Returned(t)' =>
                 /\ outcome'[t].text \in VerifyOutputs
                 /\ outcome'[t].text \notin AnalyzeOutputs
                 /\ get_status(backend', t) = [status |-> "completed", result |-> outcome'[t].text]
      ]_vars

C11_Witness ==
    \E t \in Issued, w \in Workers :
        /\ Returned(t)
        /\ StatusOf(t).result \in VerifyOutputs
        /\ StageOf(w) = "verify" /\ wk[w].context \in AnalyzeOutputs

\* Collapsing every run of blank lines of a text into one blank line, as the
\* claim words it.  Between two text characters k+1 newlines are k blank lines,
\* so a run of three or more newlines becomes two and two newlines stay; the
\* newlines before the first and after the last text character are read the way
\* the code treats them (one newline remains).
TextAt(text) == {i \in 1..Len(text) : text[i] # NL}
RECURSIVE SqueezeBlank(_)
SqueezeBlank(text) ==
    IF Len(text) < 3 THEN text
    ELSE IF text[1] = NL /\ text[2] = NL /\ text[3] = NL THEN SqueezeBlank(Tail(text))
         ELSE <<text[1]>> \o SqueezeBlank(Tail(text))
CollapseBlankLines(text) ==
    IF TextAt(text) = {} THEN (IF text = << >> THEN << >> ELSE <<NL>>)
    ELSE LET first == CHOOSE i \in TextAt(text) : \A j \in TextAt(text) : i <= j
             last == CHOOSE i \in TextAt(text) : \A j \in TextAt(text) : j <= i
         IN  (IF first > 1 THEN <<NL>> ELSE << >>)
             \o SqueezeBlank(SubSeq(text, first, last))
             \o (IF last < Len(text) THEN <<NL>> ELSE << >>)
PageText(page) == IF page.t = "text" THEN page.v ELSE << >>
\* the normalized page texts in page order, each followed by `sep`
RECURSIVE JoinPages(_, _)
JoinPages(pages, sep) ==
    IF pages = << >> THEN << >>
    ELSE CollapseBlankLines(PageText(Head(pages))) \o sep \o JoinPages(Tail(pages), sep)
\* two or more blank lines in a row: three newlines in a row
HasBlankRun(text) ==
    \E i \in 1..(Len(text) - 2) : text[i] = NL /\ text[i + 1] = NL /\ text[i + 2] = NL
ExPages == IF ex.fs = {} THEN << >> ELSE (CHOOSE e \in ex.fs : TRUE).bytes.pages
TextDocument ==
    /\ ex.pc = "done"
    /\ ex.exists
    /\ ~OpenFaults(ex.fs, ex.path)
    /\ ~AllBlank(ex.fs, ex.path)
\* C12 as stated: for a document whose pages have text, the output of _run is
\* the pages' texts in page order (with or without the newline the code puts
\* after a page), each with every run of blank lines collapsed into one blank
\* line, a single blank line between two text lines being kept, and no run of
\* two or more blank lines is left anywhere in the output.
C12_Original ==
    TextDocument =>
        /\ ex.out.value \in {JoinPages(ExPages, <<NL>>), JoinPages(ExPages, << >>)}
        /\ ~HasBlankRun(ex.out.value)

\* the one-page document "a\n\na" comes out as "a\na\n": the blank line is gone
C12_Witness ==
    /\ TextDocument
    /\ ExPages = <<TextPage(<<"a", NL, NL, "a">>)>>
    /\ ex.out.value = <<"a", NL, "a", NL>>

PersistRaised(t) == outcome[t].stage \in {"add", "commit"}
\* C13: a job whose pipeline returned and whose db.add or db.commit raised is
\* FAILURE: GET /status answers failed with str of the persistence exception
\* and nothing else, in particular no result and nowhere the text the pipeline
\* returned; this holds from the raise on, and a job that was ever reported
\* completed is never one whose record write raised.
C13_PersistFailure ==
    [][\A t \in Issued :
         /\ PersistRaised(t)' =>
               /\ TaskState(backend', t) = "FAILURE"
               /\ get_status(backend', t) = [status |-> "failed", error |-> StrExc(DbError)]
               /\ \A f \in DOMAIN get_status(backend', t) :
                     get_status(backend', t)[f] \notin VerifyOutputs
               /\ lastResp'.status = "completed" => lastResp' # get_status(backend', t)
         /\ (~PersistRaised(t) /\ PersistRaised(t)') =>
               \E w \in Workers :
                   /\ wk[w].msg.id = t
                   /\ wk[w].pc \in {"add", "commit"}
                   /\ StrResult(wk[w].result) \in VerifyOutputs
         /\ StatusOf(t).status = "completed" => ~PersistRaised(t)'
      ]_vars

C13_Witness ==
    \E t \in Issued, u \in Issued :
        /\ outcome[t].stage = "commit"
        /\ outcome[u].stage = "add"
        /\ lastResp = StatusOf(t)
        /\ StatusOf(t).status = "failed"

JobMsgs == ({queue[i] : i \in 1..Len(queue)} \cup {wk[w].msg : w \in Workers}) \ {NoMsg}
SaveFailed(r) == reqs[r].pc = "done" /\ reqs[r].path = << >>
UploadOf(t) == Uploads[reqs[JobReq(t)].upload]
\* C14: every message on the broker or held by a pool process belongs to a
\* request whose save_upload_file returned, carries the path that call
\* returned, and the file at that path holds the complete upload, so the file
\* is there with its full contents whenever a job is started or running (the
\* extractor never answers not-found for it); a request whose save failed
\* answered 500 and has no task id, hence no message.
C14_SavedBeforeEnqueue ==
    /\ \A m \in JobMsgs :
          /\ m.id \in Issued
          /\ m.file_path = JobPath(m.id)
          /\ FileEntry(m.file_path, UploadOf(m.id).bytes) \in files
    /\ \A t \in TaskIds :
          runs[t] > 0 =>
              /\ t \in Issued
              /\ FileEntry(JobPath(t), UploadOf(t).bytes) \in files
    /\ \A w \in Workers :
          wk[w].pc \in {"verify", "add", "commit", "close"} =>
              /\ wk[w].doc # NotFoundMsg(wk[w].msg.file_path)
              /\ Returns(wk[w].doc) = _run({FileEntry(wk[w].msg.file_path, UploadOf(wk[w].msg.id).bytes)},
                                            wk[w].msg.file_path)
    /\ \A r \in Reqs :
          /\ SaveFailed(r) => (reqs[r].http = 500 /\ reqs[r].task_id = 0)
          /\ reqs[r].task_id # 0 =>
                /\ reqs[r].http = 200
                /\ reqs[r].path # << >>
                /\ \A r2 \in Reqs : reqs[r2].task_id = reqs[r].task_id => r2 = r
    /\ Cardinality({m.id : m \in JobMsgs} \cup {t \in TaskIds : runs[t] > 0})
           <= Cardinality({r \in Reqs : reqs[r].http = 200})

C14_Witness ==
    \E w \in Workers, r \in Reqs :
        /\ wk[w].pc = "analyze"
        /\ FileEntry(wk[w].msg.file_path, UploadOf(wk[w].msg.id).bytes) \in files
        /\ SaveFailed(r)
        /\ queue = << >>

NoRequestInFlight == \A r \in Reqs : reqs[r].pc \in {"new", "done"}
JobsOfFile(e) == {t \in Issued : JobPath(t) = e.path}
\* C15 as stated: once no POST /analyze is in flight, every file in the upload
\* directory is the file of exactly one submitted job, so a request answered
\* with 500 (its save failed, or delay failed after the save) left no file, and
\* every message belongs to a request answered with 200.
C15_Original ==
    NoRequestInFlight =>
        /\ \A e \in files : Cardinality(JobsOfFile(e)) = 1
        /\ Cardinality(files) = Cardinality(Issued)
        /\ \A m \in JobMsgs : m.id \in Issued /\ reqs[JobReq(m.id)].http = 200

\* delay failed after the save: the request answered 500, no job was issued,
\* and the saved upload is still in the upload directory
C15_Witness ==
    \E r \in Reqs :
        /\ NoRequestInFlight
        /\ reqs[r].http = 500 /\ reqs[r].task_id = 0
        /\ reqs[r].path # << >>
        /\ FileEntry(reqs[r].path, Uploads[reqs[r].upload].bytes) \in files
        /\ \A m \in JobMsgs : m.file_path # reqs[r].path

InSession == {w \in Workers : wk[w].pc \in {"commit", "close"}}
\* C16 as stated: the sessions that are open are those of the calls of
\* process_document that are between SessionLocal() and db.close(); a task that
\* has finished, by returning or by raising in add or commit, has closed its
\* session, so with every pool process idle no session is open.
C16_Original ==
    /\ openSessions = Cardinality(InSession)
    /\ (\A w \in Workers : wk[w].pc = "idle") => openSessions = 0

\* one job returned, the commit of another raised, the pool is idle and a
\* session is still open
C16_Witness ==
    \E t \in Issued, u \in Issued :
        /\ AllFinished
        /\ \A w \in Workers : wk[w].pc = "idle"
        /\ Returned(t)
        /\ outcome[u].stage = "commit"
        /\ openSessions = 1
====
